---------------------------- MODULE Spec2Model ----------------------------
(***************************************************************************)
(* Rule analysis engine of pssshop/ai (src/utils/logic.ts): segmentation   *)
(* of an entity's flat rule list, the pendingSkip walk of analyzeSegment,  *)
(* the requirement path enumerator and the primary/alternate selection.    *)
(*                                                                         *)
(* Conventions.  Sequences are 1-based, the source's arrays 0-based: a     *)
(* position p of the model is the source's array index p - 1, and every    *)
(* value the source derives from an array index (zeroBased, displayIndex)  *)
(* is computed from p - 1.  An action text is kept as its sequence of      *)
(* words; a display index, String(n) in the source, is kept as n.  An      *)
(* optional field is <<>> when undefined and <<v>> when set to v.          *)
(***************************************************************************)
EXTENDS Integers, Sequences, FiniteSets, TLC

\* Longest rule list an entity carries in the model.
MaxRules == 4

\* Longest ai list of a raw entity and longest raw entity list handed to
\* normalizeEntities.
MaxRaw == 2
MaxEntities == 1

\* Longest ai list of the raw entity whose rules.sort is looked at alone.
MaxSorted == 3

\* Longest raw entity list whose ids are looked at alone.
MaxIds == 3

\* Most raw entities added in one session of App, by handleCreateDraft or
\* by the import of a file.
MaxAdded == 2

\* Rule.index when the raw record carries none (Number(undefined) is NaN).
NoIndex == -1

\* Condition texts of the model; "None" is the always-true condition.
Conditions == {"None", "A", "B"}

\* Action texts of the model, as word sequences.
SkipAmmoAction == <<"Skip", "next", "ammo", "action">>
SetItemAction == <<"Set", "item">>
SetPowerAction == <<"Set", "maximum", "power">>
Actions == {SkipAmmoAction, SetItemAction, SetPowerAction}

\* An action text no keyword of subsystemOf matches, and the phase tags a
\* rule may carry ("" when the rule has none).
DoNothingAction == <<"Do", "nothing">>
Phases == {"", "move"}

SKIP_PREFIX == <<"skip", "next">>

Undefined == <<>>
Some(v) == <<v>>
IsSet(o) == o # <<>>
Val(o) == o[1]

\* String.prototype.toLowerCase on the words of the model.
toLowerCase(text) ==
  [i \in 1..Len(text) |->
     CASE text[i] = "Skip" -> "skip"
       [] text[i] = "Set" -> "set"
       [] OTHER -> text[i]]

\* String.prototype.startsWith for a prefix that ends on a word.
startsWith(text, prefix) ==
  /\ Len(text) >= Len(prefix)
  /\ SubSeq(text, 1, Len(prefix)) = prefix

\* startsWith for a prefix that ends in a space ("skip next ", "target "):
\* the words of the prefix, then at least one more word.
startsWithSpace(text, prefix) ==
  /\ Len(text) > Len(prefix)
  /\ SubSeq(text, 1, Len(prefix)) = prefix

\* includes(sub): sub occurs as a run of consecutive words.
includes(text, sub) ==
  \E i \in 1..Len(text) :
    /\ i + Len(sub) - 1 <= Len(text)
    /\ SubSeq(text, i, i + Len(sub) - 1) = sub

\* Number.isFinite(Number(rule.index))
isFiniteIndex(rule) == rule.index # NoIndex

isSkip(rule) == startsWithSpace(toLowerCase(rule.action), SKIP_PREFIX)

subsystemOf(rule) ==
  LET action == toLowerCase(rule.action) IN
  IF includes(action, <<"special", "power">>) THEN "special"
  ELSE IF \/ startsWithSpace(action, <<"target">>)
          \/ includes(action, <<"continue", "current", "job">>)
          \/ includes(action, <<"set", "no", "target">>)
          \/ includes(action, <<"skip", "next", "target", "action">>)
       THEN "target"
  ELSE IF \/ startsWith(action, <<"set", "item">>)
          \/ includes(action, <<"set", "highest">>)
          \/ includes(action, <<"set", "cheapest">>)
          \/ includes(action, <<"skip", "next", "ammo", "action">>)
          \/ includes(action, <<"ammo">>)
       THEN "ammo"
  ELSE IF \/ includes(action, <<"set", "power">>)
          \/ includes(action, <<"increase", "power">>)
          \/ includes(action, <<"decrease", "power">>)
          \/ includes(action, <<"set", "zero", "power">>)
          \/ includes(action, <<"set", "maximum", "power">>)
          \/ includes(action, <<"skip", "next", "power", "action">>)
       THEN "power"
  ELSE IF rule.phase # "" THEN rule.phase
  ELSE "(unknown)"

\* bucketBySubsystem's acc[key].push(rule), done at the wrong end.
pushToBucket_Front(bucket, rule) == <<rule>> \o bucket

\* acc[key].push(rule)
pushToBucket(bucket, rule) == Append(bucket, rule)

\* The reduce of bucketBySubsystem; acc maps the keys seen so far to their
\* buckets.
RECURSIVE bucketReduce(_, _, _)
bucketReduce(rules, i, acc) ==
  IF i > Len(rules) THEN acc
  ELSE LET key == subsystemOf(rules[i])
           bucket == IF key \in DOMAIN acc THEN acc[key] ELSE <<>>
       IN bucketReduce(rules, i + 1,
            [k \in DOMAIN acc \cup {key} |->
               IF k = key THEN pushToBucket(bucket, rules[i]) ELSE acc[k]])

bucketBySubsystem(rules) == bucketReduce(rules, 1, <<>>)

\* Every rule closes the segment it is pushed to.
terminatesSegment_Always(rule) == TRUE

\* Whether a rule terminates the segment it is pushed to: !isSkip(rule).
terminatesSegment(rule) == ~isSkip(rule)

\* One pass of the for loop: push the rule, close the segment on a non-Skip.
RECURSIVE segmentLoop(_, _, _, _)
segmentLoop(rules, i, segments, current) ==
  IF i > Len(rules) THEN [segments |-> segments, current |-> current]
  ELSE LET pushed == Append(current, rules[i]) IN
       IF terminatesSegment(rules[i])
       THEN segmentLoop(rules, i + 1, Append(segments, pushed), <<>>)
       ELSE segmentLoop(rules, i + 1, segments, pushed)

\* The trailing buffer is forgotten: trailing Skips are lost.
trailingSegment_Dropped(current) == FALSE

\* Whether the trailing buffer is added as a segment of its own.
trailingSegment(current) == Len(current) > 0

buildSegmentsForSubsystem(rules) ==
  LET r == segmentLoop(rules, 1, <<>>, <<>>) IN
  IF trailingSegment(r.current) THEN Append(r.segments, r.current) ELSE r.segments

getRuleDisplayIndex(rule, fallbackIndex) ==
  IF isFiniteIndex(rule) THEN rule.index + 1 ELSE fallbackIndex + 1

\* Array.prototype.sort (stable) of s, where cmp[i][j] is the comparator's
\* result on (s[i], s[j]) and the comparator is a total preorder: element i
\* lands after the elements that compare smaller and after the equal ones
\* that stood before it.
StableSort(s, cmp) ==
  LET n == Len(s)
      rank(i) == 1 + Cardinality({j \in 1..n :
                      \/ cmp[j][i] < 0
                      \/ cmp[j][i] = 0 /\ j < i})
  IN [k \in 1..n |-> s[CHOOSE i \in 1..n : rank(i) = k]]

\* The comparator of rules.sort in normalizeEntities.
compareIndex(a, b) ==
  IF isFiniteIndex(a) /\ isFiniteIndex(b) THEN a.index - b.index ELSE 0

\* Whether compareIndex is a consistent comparator on s: "compares equal"
\* is transitive.  It is not when a rule without index stands between two
\* rules of different index.
consistentComparator(s) ==
  \A i, j, k \in 1..Len(s) :
    (compareIndex(s[i], s[j]) = 0 /\ compareIndex(s[j], s[k]) = 0)
      => compareIndex(s[i], s[k]) = 0

\* The orders rules.sort may leave s in: the stable sort when the
\* comparator is consistent, otherwise an implementation-defined
\* permutation (ECMAScript, Array.prototype.sort).
sortOutcomes(s) ==
  IF consistentComparator(s)
  THEN {StableSort(s, [i \in 1..Len(s) |-> [j \in 1..Len(s) |->
                         compareIndex(s[i], s[j])]])}
  ELSE {[k \in 1..Len(s) |-> s[perm[k]]] : perm \in Permutations(1..Len(s))}

\* The array the map callback sorts: raw.ai.slice() when raw.ai is an
\* array, otherwise a fresh empty array.  raw.rules, which the source reads
\* in the same way when raw.ai is no array, is kept in the same field.
rulesCopy(raw) == IF IsSet(raw.ai) THEN Val(raw.ai) ELSE <<>>

\* rules.sort is applied to raw.ai itself: the caller's array is sorted.
rawAfterSort_InPlace(raw, sorted) ==
  IF IsSet(raw.ai) THEN [raw EXCEPT !.ai = Some(sorted)] ELSE raw

\* The caller's raw entity after the map callback: sort is applied to the
\* copy that slice() made, raw.ai is not touched.
rawAfterSort(raw, sorted) == raw

\* String(n) of an array position, as the sequence of its characters.
Digits == <<"0", "1", "2", "3", "4", "5", "6", "7", "8", "9">>
toString(n) == <<Digits[n + 1]>>

\* identifier of the map callback: raw.uid ?? raw.id ?? characterId ??
\* roomId ?? idx.  The first of the four fields the raw entity carries is
\* kept in raw.uid, as the sequence of the characters of its text; idx is
\* the position of the raw entity (the source's idx + 1).
identifierOf(raw, idx) ==
  IF IsSet(raw.uid) THEN Val(raw.uid) ELSE toString(idx - 1)

\* id of the map callback: `${fallbackType}|${identifier}`, and
\* `${fallbackType}|${identifier}|${idx}` when seenIds holds the former.
\* A text is the sequence of its characters, fallbackType one opaque piece.
assignId(raw, idx, seenIds, fallbackType) ==
  LET id == <<fallbackType, "|">> \o identifierOf(raw, idx) IN
  IF id \in seenIds THEN id \o <<"|">> \o toString(idx - 1) ELSE id

\* The map callback of normalizeEntities on the raw entity at position idx:
\* the entities it may return, each with the raw entity it leaves behind.
\* Entity.source refers to the raw entity and is kept as its position.
normalizeOne(raw, idx, seenIds, fallbackType) ==
  {[entity |-> [id |-> assignId(raw, idx, seenIds, fallbackType),
                flatRules |-> sorted, source |-> idx],
    raw |-> rawAfterSort(raw, sorted)] : sorted \in sortOutcomes(rulesCopy(raw))}

\* list.map over the items from position i on; seenIds holds the ids given
\* to the items before i.
RECURSIVE mapItems(_, _, _, _)
mapItems(items, i, seenIds, fallbackType) ==
  IF i > Len(items) THEN {[entities |-> <<>>, items |-> <<>>]}
  ELSE {[entities |-> <<one.entity>> \o rest.entities,
         items |-> <<one.raw>> \o rest.items] :
          one \in normalizeOne(items[i], i, seenIds, fallbackType),
          rest \in mapItems(items, i + 1,
                            seenIds \cup {assignId(items[i], i, seenIds, fallbackType)},
                            fallbackType)}

\* The guard is missing: list.map is reached with any value.
returnsEmptyForNonArray_Never(list) == FALSE

\* if (!Array.isArray(list)) return [];
returnsEmptyForNonArray(list) == ~list.isArray

\* normalizeEntities(list, fallbackType): the outcomes of one call, each
\* with the exception it throws ("none" when it returns), the entities it
\* returns and the list it leaves behind.  A list is [isArray |-> FALSE]
\* for null, undefined and every other non-array value.
normalizeEntities(list, fallbackType) ==
  IF returnsEmptyForNonArray(list)
  THEN {[error |-> "none", entities |-> <<>>, list |-> list]}
  ELSE IF ~list.isArray
  THEN {[error |-> "TypeError", entities |-> <<>>, list |-> list]}
  ELSE {[error |-> "none", entities |-> out.entities,
         list |-> [list EXCEPT !.items = out.items]] :
          out \in mapItems(list.items, 1, {}, fallbackType)}

\* (rule.condition ?? "None").trim() || "None" on the texts of the model.
normalizeCondition(condition) == IF condition = "" THEN "None" ELSE condition

\* condition === "none": the comparison without toLowerCase.
isAlwaysTrue_CaseSensitive(condition) == condition = "none"

\* condition.toLowerCase() === "none"
isAlwaysTrue(condition) == condition \in {"None", "none"}

\* A suppressed Skip arms pendingSkip as well.
armsPendingSkip_EvenSuppressed(suppressedBy, isSkipRule) == isSkipRule

\* Whether the walk arms pendingSkip at a rule (logic.ts: !suppressedBy && isSkipRule).
armsPendingSkip(suppressedBy, isSkipRule) == ~IsSet(suppressedBy) /\ isSkipRule

\* The Skip names itself as the rule it suppresses.
nextPosition_Self(idx) == idx

\* The position of segment.rules[idx + 1], the rule an armed Skip suppresses.
nextPosition(idx) == idx + 1

\* One iteration of segment.rules.forEach in analyzeSegment: the insight of
\* the rule at position idx and the pendingSkip it leaves behind.
walkStep(segRules, idx, pendingSkip) ==
  LET rule == segRules[idx]
      condition == normalizeCondition(rule.condition)
      zeroBased == IF isFiniteIndex(rule) THEN rule.index ELSE idx - 1
      displayIndex == getRuleDisplayIndex(rule, idx - 1)
      isSkipRule == isSkip(rule)
      alwaysTrue == isAlwaysTrue(condition)
      suppressedBy ==
        IF IsSet(pendingSkip)
        THEN Some([ruleIndex |-> Val(pendingSkip).index,
                   displayIndex |-> Val(pendingSkip).displayIndex,
                   always |-> Val(pendingSkip).always])
        ELSE Undefined
      arms == ~(IsSet(suppressedBy) /\ Val(suppressedBy).always)
              /\ armsPendingSkip(suppressedBy, isSkipRule)
      next == nextPosition(idx)
      suppressesNext ==
        IF arms /\ next <= Len(segRules)
        THEN LET nextRule == segRules[next] IN
             Some([ruleIndex |-> IF isFiniteIndex(nextRule) THEN nextRule.index ELSE next - 1,
                   displayIndex |-> getRuleDisplayIndex(nextRule, next - 1),
                   always |-> alwaysTrue])
        ELSE Undefined
  IN [insight |-> [rule |-> rule,
                   index |-> zeroBased,
                   displayIndex |-> displayIndex,
                   condition |-> condition,
                   action |-> rule.action,
                   isSkip |-> isSkipRule,
                   alwaysTrue |-> alwaysTrue,
                   suppressedBy |-> suppressedBy,
                   suppressesNext |-> suppressesNext,
                   requirements |-> <<>>,
                   requirementPaths |-> <<>>],
      pendingSkip |-> IF arms
                      THEN Some([index |-> zeroBased, displayIndex |-> displayIndex,
                                 always |-> alwaysTrue])
                      ELSE Undefined]

\* The whole forEach of analyzeSegment's first pass.
RECURSIVE walk(_, _, _, _)
walk(segRules, idx, insights, pendingSkip) ==
  IF idx > Len(segRules) THEN insights
  ELSE LET step == walkStep(segRules, idx, pendingSkip) IN
       walk(segRules, idx + 1, Append(insights, step.insight), step.pendingSkip)

\* map.get(condition) never finds a recorded constraint.
mapHas_Never(map, condition) == FALSE

\* A RequirementMap is kept as the sequence of its entries in insertion
\* order, each [condition, expects, displayIndex]; addRequirementToMap's
\* result is [ok |-> FALSE] for null and [ok |-> TRUE, map |-> m] otherwise.
mapHas(map, condition) == \E i \in 1..Len(map) : map[i].condition = condition
mapGet(map, condition) == map[CHOOSE i \in 1..Len(map) : map[i].condition = condition]

\* The sorted, joined "condition|T" strings, kept as the set they encode.
requirementMapSignature(map) ==
  {<<map[i].condition, map[i].expects>> : i \in 1..Len(map)}

\* A constraint that contradicts the recorded one is not noticed.
addRequirementToMap_NoConflict(map, rule, expects) ==
  IF rule.alwaysTrue
  THEN (IF expects THEN [ok |-> TRUE, map |-> map] ELSE [ok |-> FALSE])
  ELSE IF mapHas(map, rule.condition)
       THEN [ok |-> TRUE, map |-> map]
       ELSE [ok |-> TRUE,
             map |-> Append(map, [condition |-> rule.condition,
                                  expects |-> expects,
                                  displayIndex |-> rule.displayIndex])]

addRequirementToMap(map, rule, expects) ==
  IF rule.alwaysTrue
  THEN (IF expects THEN [ok |-> TRUE, map |-> map] ELSE [ok |-> FALSE])
  ELSE IF mapHas(map, rule.condition)
       THEN (IF mapGet(map, rule.condition).expects # expects
             THEN [ok |-> FALSE]
             ELSE [ok |-> TRUE, map |-> map])
       ELSE [ok |-> TRUE,
             map |-> Append(map, [condition |-> rule.condition,
                                  expects |-> expects,
                                  displayIndex |-> rule.displayIndex])]

compareDisplayIndex(a, b) == a.displayIndex - b.displayIndex

mapToRequirements(map) ==
  StableSort(map, [i \in 1..Len(map) |-> [j \in 1..Len(map) |->
                     compareDisplayIndex(map[i], map[j])]])

\* The branch "this Skip's condition is false" is never explored.
skipFalseBranch_Never(rule) == FALSE

\* Whether dfs explores the branch "this Skip's condition is false".
skipFalseBranch(rule) == ~rule.alwaysTrue

\* The recursive call stays at the rule it was made from.
nextIndex_Same(index) == index

\* The index every recursive call of dfs passes on: index + 1.
nextIndex(index) == index + 1

\* dfs of enumerateRequirementPaths; st carries the closure's results and
\* visited, index is a position (the source's index + 1). st also keeps
\* the history of the search: expanded lists, in order, the signatures
\* that passed the visited test, and steps holds <<index, index passed>>
\* of every recursive call made.
RECURSIVE dfs(_, _, _, _, _, _)
dfs(insights, targetIndex, index, skipNext, assignments, st) ==
  IF index > targetIndex THEN st
  ELSE
    LET signature == <<index, skipNext, requirementMapSignature(assignments)>> IN
    IF signature \in st.visited THEN st
    ELSE
      LET st1 == [st EXCEPT !.visited = @ \cup {signature},
                            !.expanded = Append(@, signature)]
          rule == insights[index]
          trueMap == addRequirementToMap(assignments, rule, TRUE)
          falseMap == addRequirementToMap(assignments, rule, FALSE)
          called(s) == [s EXCEPT !.steps = @ \cup {<<index, nextIndex(index)>>}]
      IN
      IF skipNext
      THEN (IF index = targetIndex THEN st1
            ELSE dfs(insights, targetIndex, nextIndex(index), FALSE, assignments,
                     called(st1)))
      ELSE IF rule.isSkip
      THEN LET st2 == IF trueMap.ok
                      THEN dfs(insights, targetIndex, nextIndex(index), TRUE,
                               trueMap.map, called(st1))
                      ELSE st1
           IN IF skipFalseBranch(rule) /\ falseMap.ok
              THEN dfs(insights, targetIndex, nextIndex(index), FALSE,
                       falseMap.map, called(st2))
              ELSE st2
      ELSE LET st2 == IF trueMap.ok /\ index = targetIndex
                      THEN [st1 EXCEPT !.results = Append(@, mapToRequirements(trueMap.map))]
                      ELSE st1
           IN IF trueMap.ok /\ index # targetIndex THEN st2
              ELSE IF ~rule.alwaysTrue /\ falseMap.ok
              THEN dfs(insights, targetIndex, nextIndex(index), FALSE,
                       falseMap.map, called(st2))
              ELSE st2

\* The state of the closure when dfs(0, false, new Map()) has returned.
searchOf(insights, targetIndex) ==
  dfs(insights, targetIndex, 1, FALSE, <<>>,
      [results |-> <<>>, visited |-> {}, expanded |-> <<>>, steps |-> {}])

enumerateRequirementPaths(insights, targetIndex) ==
  searchOf(insights, targetIndex).results

\* insightLookup.get(displayIndex): the position of the insight stored
\* last under that display index (Map.set overwrites), 0 when there is none.
lookupPosition(insights, displayIndex) ==
  LET hits == {i \in 1..Len(insights) : insights[i].displayIndex = displayIndex} IN
  IF hits = {} THEN 0 ELSE CHOOSE i \in hits : \A j \in hits : j <= i

scorePath(path, insights) ==
  LET linkedSkip(req) ==
        LET pos == lookupPosition(insights, req.displayIndex) IN
        pos # 0 /\ insights[pos].isSkip
  IN [path |-> path,
      skipTrueCount |-> Cardinality({i \in 1..Len(path) : linkedSkip(path[i]) /\ path[i].expects}),
      skipFalseCount |-> Cardinality({i \in 1..Len(path) : linkedSkip(path[i]) /\ ~path[i].expects}),
      length |-> Len(path)]

\* The first key is compared the other way round: more Skip constraints
\* expected true sort first.
compareScored_MoreSkipTrueFirst(a, b) ==
  IF a.skipTrueCount # b.skipTrueCount THEN b.skipTrueCount - a.skipTrueCount
  ELSE IF b.skipFalseCount # a.skipFalseCount THEN b.skipFalseCount - a.skipFalseCount
  ELSE IF a.length # b.length THEN a.length - b.length
  ELSE 0

compareScored(a, b) ==
  IF a.skipTrueCount # b.skipTrueCount THEN a.skipTrueCount - b.skipTrueCount
  ELSE IF b.skipFalseCount # a.skipFalseCount THEN b.skipFalseCount - a.skipFalseCount
  ELSE IF a.length # b.length THEN a.length - b.length
  ELSE 0

selectPreferredPaths(paths, insights) ==
  IF Len(paths) <= 1 THEN paths
  ELSE
    LET unsorted == [i \in 1..Len(paths) |-> scorePath(paths[i], insights)]
        scored == StableSort(unsorted, [i \in 1..Len(paths) |-> [j \in 1..Len(paths) |->
                               compareScored(unsorted[i], unsorted[j])]])
        best == scored[1]
        tied(item) == /\ item.skipTrueCount = best.skipTrueCount
                      /\ item.skipFalseCount = best.skipFalseCount
                      /\ item.length = best.length
        preferred == SelectSeq(scored, tied)
    IN [i \in 1..Len(preferred) |-> preferred[i].path]

\* The rule right before the target counts as the last action, Skip or not.
lastActionPosition_AnyRule(insights, index) == index - 1

\* lastActionPosition of analyzeSegment, as a position (0 for the source's -1).
lastActionPosition(insights, index) ==
  LET earlier == {i \in 1..(index - 1) : ~insights[i].isSkip} IN
  IF earlier = {} THEN 0 ELSE CHOOSE i \in earlier : \A j \in earlier : j <= i

trimPath(insights, index, path) ==
  LET keep(req) ==
        LET linked == lookupPosition(insights, req.displayIndex) IN
        IF linked = 0 THEN TRUE
        ELSE IF linked >= index THEN TRUE
        ELSE linked > lastActionPosition(insights, index)
  IN SelectSeq(path, keep)

\* The map analyzeSegment rebuilds from a path before signing it
\* (map.set: a later entry of a condition replaces the earlier one).
pathSignature(path) ==
  {<<path[i].condition, path[i].expects>> :
     i \in {k \in 1..Len(path) :
              \A j \in (k + 1)..Len(path) : path[j].condition # path[k].condition}}

RECURSIVE dedupeLoop(_, _, _, _)
dedupeLoop(trimmedPaths, i, dedupedPaths, seenSignatures) ==
  IF i > Len(trimmedPaths) THEN dedupedPaths
  ELSE LET path == trimmedPaths[i]
           signature == pathSignature(path)
       IN IF Len(path) = 0 \/ signature \in seenSignatures
          THEN dedupeLoop(trimmedPaths, i + 1, dedupedPaths, seenSignatures)
          ELSE dedupeLoop(trimmedPaths, i + 1, Append(dedupedPaths, path),
                          seenSignatures \cup {signature})

trimmedPathsOf(insights, index) ==
  LET rawPaths == enumerateRequirementPaths(insights, index) IN
  [i \in 1..Len(rawPaths) |-> trimPath(insights, index, rawPaths[i])]

dedupedPathsOf(insights, index) ==
  dedupeLoop(trimmedPathsOf(insights, index), 1, <<>>, {})

\* The alternates analyzeSegment stores in insight.requirementPaths.
alternatePaths(preferredPaths, requirementPaths) ==
  IF Len(preferredPaths) > 1 THEN Tail(preferredPaths)
  ELSE IF Len(requirementPaths) > 1 THEN Tail(requirementPaths)
  ELSE <<>>

\* Second forEach of analyzeSegment: requirements and requirementPaths of
\* the insight at position index.
withRequirements(insights, index) ==
  LET insight == insights[index] IN
  IF insight.isSkip THEN insight
  ELSE
    LET requirementPaths == dedupedPathsOf(insights, index)
        preferredPaths == selectPreferredPaths(requirementPaths, insights)
    IN IF Len(requirementPaths) = 0 THEN insight
       ELSE [insight EXCEPT
               !.requirements = IF Len(preferredPaths) > 0 THEN preferredPaths[1] ELSE @,
               !.requirementPaths = alternatePaths(preferredPaths, requirementPaths)]

isUnreachable(insight) ==
  ~insight.isSkip /\ IsSet(insight.suppressedBy) /\ Val(insight.suppressedBy).always

isGuaranteed(insight) ==
  /\ ~insight.isSkip
  /\ ~isUnreachable(insight)
  /\ ~IsSet(insight.suppressedBy) /\ insight.alwaysTrue

\* The guaranteed test does not return: a guaranteed action falls through
\* to reachableActions.push as well.
isReachable_FallsThrough(insight) ==
  ~insight.isSkip /\ ~isUnreachable(insight)

isReachable(insight) ==
  ~insight.isSkip /\ ~isUnreachable(insight) /\ ~isGuaranteed(insight)

analyzeSegment(segment) ==
  IF Len(segment) = 0
  THEN [rules |-> <<>>, guaranteedActions |-> <<>>,
        reachableActions |-> <<>>, unreachableActions |-> <<>>]
  ELSE
    LET walked == walk(segment, 1, <<>>, Undefined)
        insights == [i \in 1..Len(walked) |-> withRequirements(walked, i)]
    IN [rules |-> insights,
        guaranteedActions |-> SelectSeq(insights, isGuaranteed),
        reachableActions |-> SelectSeq(insights, isReachable),
        unreachableActions |-> SelectSeq(insights, isUnreachable)]

\* Execution model of a rule list (copilot-instructions.md, "Execution
\* flow for a rule"): rules run top to bottom; a suppressed rule is not
\* evaluated; an evaluated Skip whose condition is true suppresses the next
\* rule; the first evaluated non-Skip rule whose condition is true fires and
\* evaluation stops.  The result is the set of evaluated positions and the
\* position that fired (0 when none did).
Assignments == [Conditions \ {"None"} -> BOOLEAN]

conditionHolds(rule, asg) ==
  LET condition == normalizeCondition(rule.condition) IN
  isAlwaysTrue(condition) \/ asg[condition]

RECURSIVE evaluate(_, _, _, _, _)
evaluate(segRules, asg, idx, suppressed, evaluated) ==
  IF idx > Len(segRules) THEN [fired |-> 0, evaluated |-> evaluated]
  ELSE IF suppressed THEN evaluate(segRules, asg, idx + 1, FALSE, evaluated)
  ELSE IF isSkip(segRules[idx])
       THEN evaluate(segRules, asg, idx + 1, conditionHolds(segRules[idx], asg),
                     evaluated \cup {idx})
  ELSE IF conditionHolds(segRules[idx], asg)
       THEN [fired |-> idx, evaluated |-> evaluated \cup {idx}]
  ELSE evaluate(segRules, asg, idx + 1, FALSE, evaluated \cup {idx})

run(segRules, asg) == evaluate(segRules, asg, 1, FALSE, {})

VARIABLES rules, pc, segments, analyses, enumerated, buckets,
          list, entities, error,
          sources, workspaceIds, storage, created, imported, last

\* The caller's raw list, the entities normalizeEntities returned and the
\* exception it threw.
normVars == <<list, entities, error>>

\* The state of App: sources, the ids of useWorkspace, the value of
\* localStorage["pssai:drafts"], the numbers of drafts created and files
\* imported so far, and the handler that ran last (for handleCloseEntity,
\* with the raw entity of the entity it was given).
draftVars == <<sources, workspaceIds, storage, created, imported, last>>

\* The state of one analysis pass.
engineVars == <<rules, pc, segments, analyses, enumerated, buckets>>

vars == <<rules, pc, segments, analyses, enumerated, buckets, normVars, draftVars>>

\* App is not running.
NoApp ==
  /\ sources = <<>>
  /\ workspaceIds = <<>>
  /\ storage = <<>>
  /\ created = 0
  /\ imported = 0
  /\ last = [op |-> "none"]

\* useSegmentSummaries: the position in the segment of
\* [...segment.rules].reverse().find(rule => !isSkip(rule)), 0 when the
\* segment holds Skips only.
terminating(segment) ==
  LET actions == {i \in 1..Len(segment) : ~isSkip(segment[i])} IN
  IF actions = {} THEN 0 ELSE CHOOSE i \in actions : \A j \in actions : j <= i

\* The number of rules of the rule list that stand before segment k.
RECURSIVE rulesBefore(_, _)
rulesBefore(segs, k) ==
  IF k = 1 THEN 0 ELSE rulesBefore(segs, k - 1) + Len(segs[k - 1])

\* rules.indexOf(rule) for the rule object at position i of segment k: the
\* segments hold the objects of the rule list in order, and indexOf
\* compares by reference.
indexOf(segs, k, i) == rulesBefore(segs, k) + i - 1

\* termDisplayIndex of useSegmentSummaries, the key requirementMap is read
\* with for segment k.
termDisplayIndex(segs, k) ==
  getRuleDisplayIndex(segs[k][terminating(segs[k])],
                      indexOf(segs, k, terminating(segs[k])))

\* withIndex: the index field of the rule at position i.  rulesFromBuilder
\* numbers every rule with its array position (ruleTransforms.ts:20-27); a
\* raw dump may carry no index at all.
withIndex(body, indexed) ==
  [i \in 1..Len(body) |-> [index |-> IF indexed THEN i - 1 ELSE NoIndex,
                           condition |-> body[i].condition,
                           action |-> body[i].action,
                           phase |-> ""]]

Init ==
  /\ \E n \in 0..MaxRules, indexed \in BOOLEAN :
       \E body \in [1..n -> [condition : Conditions, action : Actions]] :
         rules = withIndex(body, indexed)
  /\ pc = "input"
  /\ segments = <<>>
  /\ analyses = <<>>
  /\ enumerated = <<>>
  /\ buckets = <<>>
  /\ list = [isArray |-> TRUE, items |-> <<>>]
  /\ entities = <<>>
  /\ error = "none"
  /\ NoApp

\* useSegmentSummaries / DetailView: segments are built from the entity's
\* whole rule list.
BuildSegments ==
  /\ pc = "input"
  /\ segments' = buildSegmentsForSubsystem(rules)
  /\ pc' = "segmented"
  /\ UNCHANGED <<rules, analyses, enumerated, buckets, normVars, draftVars>>

\* One iteration of segments.forEach: analyzeSegment of the next segment.
\* enumerated records the rawPaths, lastActionPosition, trimmedPaths and
\* dedupedPaths analyzeSegment computed for each non-Skip rule of that
\* segment, and the history of the search that produced the rawPaths.
AnalyzeNextSegment ==
  /\ pc = "segmented"
  /\ Len(analyses) < Len(segments)
  /\ LET segment == segments[Len(analyses) + 1]
         walked == walk(segment, 1, <<>>, Undefined)
     IN /\ analyses' = Append(analyses, analyzeSegment(segment))
        /\ enumerated' = Append(enumerated,
             [i \in 1..Len(segment) |->
                IF walked[i].isSkip
                THEN [rawPaths |-> <<>>, dedupedPaths |-> <<>>,
                      trimmedPaths |-> <<>>, lastActionPosition |-> 0,
                      expanded |-> <<>>, steps |-> {}]
                ELSE [rawPaths |-> enumerateRequirementPaths(walked, i),
                      dedupedPaths |-> dedupedPathsOf(walked, i),
                      trimmedPaths |-> trimmedPathsOf(walked, i),
                      lastActionPosition |-> lastActionPosition(walked, i),
                      expanded |-> searchOf(walked, i).expanded,
                      steps |-> searchOf(walked, i).steps]])
  /\ UNCHANGED <<rules, pc, segments, buckets, normVars, draftVars>>

Next == BuildSegments \/ AnalyzeNextSegment

Spec == Init /\ [][Next]_vars

\* bucketBySubsystem applied to a rule list; the rules range over every
\* kind of action text and carry a phase tag or none.
BucketInit ==
  /\ \E n \in 0..MaxRules :
       \E body \in [1..n -> [action : Actions \cup {DoNothingAction}, phase : Phases]] :
         rules = [i \in 1..n |-> [index |-> i - 1, condition |-> "None",
                                  action |-> body[i].action, phase |-> body[i].phase]]
  /\ pc = "input"
  /\ segments = <<>>
  /\ analyses = <<>>
  /\ enumerated = <<>>
  /\ buckets = <<>>
  /\ list = [isArray |-> TRUE, items |-> <<>>]
  /\ entities = <<>>
  /\ error = "none"
  /\ NoApp

Bucketize ==
  /\ pc = "input"
  /\ buckets' = bucketBySubsystem(rules)
  /\ pc' = "bucketed"
  /\ UNCHANGED <<rules, segments, analyses, enumerated, normVars, draftVars>>

BucketNext == Bucketize

BucketSpec == BucketInit /\ [][BucketNext]_vars

\* The raw rules of the lists handed to normalizeEntities: an unconditional
\* Skip with index 1 or none and a conditional action with index 0 or none,
\* so that a list may stand out of index order and may mix rules with and
\* without index.
RawRules ==
  {[index |-> index, condition |-> "None", action |-> SkipAmmoAction, phase |-> ""] :
     index \in {NoIndex, 1}}
  \cup
  {[index |-> index, condition |-> "A", action |-> SetItemAction, phase |-> ""] :
     index \in {NoIndex, 0}}

\* The raw entities: raw.ai is an array of raw rules or is missing.
RawEntities ==
  {[ai |-> Undefined, uid |-> Undefined]} \cup
  UNION {{[ai |-> Some(ai), uid |-> Undefined] : ai \in [1..n -> RawRules]} :
           n \in 0..MaxRaw}

\* normalizeEntities is handed a non-array value or a list of raw entities;
\* the rule list of one of the entities it returns is then segmented and
\* analysed, or bucketed.
NormalizeInit ==
  /\ \/ list = [isArray |-> FALSE]
     \/ \E n \in 0..MaxEntities : \E items \in [1..n -> RawEntities] :
          list = [isArray |-> TRUE, items |-> items]
  /\ pc = "raw"
  /\ rules = <<>>
  /\ entities = <<>>
  /\ error = "none"
  /\ NoApp
  /\ segments = <<>>
  /\ analyses = <<>>
  /\ enumerated = <<>>
  /\ buckets = <<>>

\* The fallback types App calls normalizeEntities with.
EntityTypes == {"crew", "room"}

\* One call of normalizeEntities on the caller's list.
Normalize ==
  /\ pc = "raw"
  /\ \E fallbackType \in EntityTypes : \E out \in normalizeEntities(list, fallbackType) :
       /\ error' = out.error
       /\ entities' = out.entities
       /\ list' = out.list
  /\ pc' = "normalized"
  /\ UNCHANGED <<rules, segments, analyses, enumerated, buckets, draftVars>>

\* An entity is selected: its flatRules are the rule list of the views.
SelectEntity ==
  /\ pc = "normalized"
  /\ error = "none"
  /\ \E e \in 1..Len(entities) : rules' = entities[e].flatRules
  /\ pc' = "input"
  /\ UNCHANGED <<segments, analyses, enumerated, buckets, normVars, draftVars>>

NormalizeNext ==
  Normalize \/ SelectEntity \/ BuildSegments \/ AnalyzeNextSegment \/ Bucketize

NormalizeSpec == NormalizeInit /\ [][NormalizeNext]_vars

\* The raw rules of the list rules.sort is looked at on: either kind of
\* rule with index 0, index 1 or none, so that two rules may share an index
\* and a rule without index may stand between two indexed ones.
SortRules ==
  {[index |-> index, condition |-> "None", action |-> action, phase |-> ""] :
     index \in {NoIndex, 0, 1}, action \in {SkipAmmoAction, SetItemAction}}

\* normalizeEntities is handed a list of one raw entity whose ai array
\* holds up to MaxSorted rules.
SortInit ==
  /\ \E n \in 0..MaxSorted : \E ai \in [1..n -> SortRules] :
       list = [isArray |-> TRUE, items |-> <<[ai |-> Some(ai), uid |-> Undefined]>>]
  /\ pc = "raw"
  /\ rules = <<>>
  /\ entities = <<>>
  /\ error = "none"
  /\ NoApp
  /\ segments = <<>>
  /\ analyses = <<>>
  /\ enumerated = <<>>
  /\ buckets = <<>>

SortNext == Normalize

SortSpec == SortInit /\ [][SortNext]_vars

\* The identifiers of the raw entities whose ids are looked at: none (the
\* array position stands in), "x", and "x|2", which holds the separator
\* followed by an array position.
Identifiers == {Undefined, Some(<<"x">>), Some(<<"x", "|", "2">>)}

\* normalizeEntities is handed a list of up to MaxIds raw entities without
\* rules, each with one of the identifiers.
IdInit ==
  /\ \E n \in 0..MaxIds : \E uids \in [1..n -> Identifiers] :
       list = [isArray |-> TRUE,
               items |-> [i \in 1..n |-> [ai |-> Undefined, uid |-> uids[i]]]]
  /\ pc = "raw"
  /\ rules = <<>>
  /\ entities = <<>>
  /\ error = "none"
  /\ NoApp
  /\ segments = <<>>
  /\ analyses = <<>>
  /\ enumerated = <<>>
  /\ buckets = <<>>

IdNext == Normalize

IdSpec == IdInit /\ [][IdNext]_vars

----------------------------------------------------------------------------
\* App: the drafts lifecycle.  A raw entity is kept as its id (key), type,
\* name and the isDraft and saved flags of __builderMeta (FALSE when the
\* field is missing); raw entities are compared by reference in the source
\* and no two of them share a key.  A source is [name, crew, rooms].  The
\* effects React runs after a handler has replaced sources (persistence,
\* the ids filter of useWorkspace) are part of the handler's action.

\* Every draft is written to storage, saved or not.
persistable_AnyDraft(raw) == raw.isDraft

\* The filter of the persistence effect: isDraft && saved.
persistable(raw) == raw.isDraft /\ raw.saved

\* allDrafts of the persistence effect: crew, then rooms, source by source.
RECURSIVE collectDrafts(_, _)
collectDrafts(srcs, i) ==
  IF i > Len(srcs) THEN <<>>
  ELSE SelectSeq(srcs[i].crew, persistable) \o SelectSeq(srcs[i].rooms, persistable)
         \o collectDrafts(srcs, i + 1)

draftsOf(srcs) == collectDrafts(srcs, 1)

\* The initializer of the sources state: the stored drafts, if any, become
\* the one source named "Drafts".
loadSources(savedDrafts) ==
  IF Len(savedDrafts) > 0
  THEN LET isCrew(d) == d.type = "crew"
           isRoom(d) == d.type = "room"
       IN <<[name |-> "Drafts",
             crew |-> SelectSeq(savedDrafts, isCrew),
             rooms |-> SelectSeq(savedDrafts, isRoom)]>>
  ELSE <<>>

\* allEntities: normalizeEntities(src.crew, "crew") and
\* normalizeEntities(src.rooms, "room") of every source; an entity is kept
\* as its id (fallbackType and raw.id) and its source.
allEntities(srcs) ==
  UNION {{[id |-> <<"crew", srcs[i].crew[j].key>>, source |-> srcs[i].crew[j]] :
            j \in 1..Len(srcs[i].crew)}
         \cup {[id |-> <<"room", srcs[i].rooms[j].key>>, source |-> srcs[i].rooms[j]] :
                 j \in 1..Len(srcs[i].rooms)} : i \in 1..Len(srcs)}

\* allEntities.find(e => e.id === entityId)
findEntity(srcs, entityId) ==
  LET hits == {e \in allEntities(srcs) : e.id = entityId} IN
  IF hits = {} THEN Undefined ELSE Some(CHOOSE e \in hits : TRUE)

\* remove(id) of useWorkspace.
removeId(ids, entityId) ==
  LET keep(x) == x # entityId IN SelectSeq(ids, keep)

\* The effect of useWorkspace: ids without an entity are dropped.
pruneIds(ids, srcs) ==
  LET entityMap == {e.id : e \in allEntities(srcs)}
      known(x) == x \in entityMap
  IN SelectSeq(ids, known)

\* src with the raw entity taken out of crew and rooms.
withoutRaw(src, raw) ==
  LET keep(r) == r # raw IN
  [src EXCEPT !.crew = SelectSeq(@, keep), !.rooms = SelectSeq(@, keep)]

\* Closing discards every draft, saved or not.
closeDiscards_AnyDraft(raw) == raw.isDraft

\* handleCloseEntity's test: isDraft && !saved.
closeDiscards(raw) == raw.isDraft /\ ~raw.saved

\* The updater of handleCloseEntity: the raw entity leaves the sources
\* named "Drafts", and a source named "Drafts" left empty is dropped.
closeUpdater(srcs, raw) ==
  LET mapped == [i \in 1..Len(srcs) |->
                   IF srcs[i].name # "Drafts" THEN srcs[i] ELSE withoutRaw(srcs[i], raw)]
      keep(src) == IF src.name = "Drafts" THEN Len(src.crew) + Len(src.rooms) > 0 ELSE TRUE
  IN SelectSeq(mapped, keep)

\* The updater of handleDeleteDraft: the raw entity leaves every source
\* and every source left empty is dropped.
deleteUpdater(srcs, raw) ==
  LET mapped == [i \in 1..Len(srcs) |-> withoutRaw(srcs[i], raw)]
      keep(src) == Len(src.crew) > 0 \/ Len(src.rooms) > 0
  IN SelectSeq(mapped, keep)

\* draftRaw of handleCreateDraft, n being the random part of its id.
newDraft(n) ==
  [key |-> <<"draft", n>>, type |-> "crew", name |-> "New AI",
   isDraft |-> TRUE, saved |-> FALSE]

\* The updater of handleCreateDraft.
createUpdater(srcs, draftRaw) ==
  LET found == {i \in 1..Len(srcs) : srcs[i].name = "Drafts"} IN
  IF found # {}
  THEN LET idx == CHOOSE i \in found : \A j \in found : i <= j IN
       [srcs EXCEPT ![idx].crew = Append(@, draftRaw)]
  ELSE <<[name |-> "Drafts", crew |-> <<draftRaw>>, rooms |-> <<>>]>> \o srcs

\* updatedRaw of handleUpdateEntity.
updatedRawOf(raw, payload) ==
  [raw EXCEPT !.name = payload.name,
              !.type = payload.type,
              !.saved = IF raw.isDraft THEN TRUE ELSE @]

\* The position of raw in a list, 0 for findIndex's -1.
findIndex(raws, raw) ==
  LET hits == {i \in 1..Len(raws) : raws[i] = raw} IN
  IF hits = {} THEN 0 ELSE CHOOSE i \in hits : \A j \in hits : i <= j

\* raws without the element at position idx.
removeAt(raws, idx) ==
  [i \in 1..(Len(raws) - 1) |-> IF i < idx THEN raws[i] ELSE raws[i + 1]]

\* The map callback of handleUpdateEntity on one source.
updateSource(source, raw, payload) ==
  LET crewIndex == findIndex(source.crew, raw)
      roomIndex == findIndex(source.rooms, raw)
      updatedRaw == updatedRawOf(raw, payload)
  IN IF crewIndex = 0 /\ roomIndex = 0 THEN source
     ELSE IF crewIndex > 0
     THEN (IF payload.type = "crew"
           THEN [source EXCEPT !.crew[crewIndex] = updatedRaw]
           ELSE [source EXCEPT !.crew = removeAt(@, crewIndex),
                               !.rooms = Append(@, updatedRaw)])
     ELSE (IF payload.type = "room"
           THEN [source EXCEPT !.rooms[roomIndex] = updatedRaw]
           ELSE [source EXCEPT !.rooms = removeAt(@, roomIndex),
                               !.crew = Append(@, updatedRaw)])

\* The drafts localStorage may hold when App mounts: none, or one saved
\* draft of an earlier session.
StoredDrafts ==
  {<<>>} \cup
  {<<[key |-> <<"draft", 0>>, type |-> type, name |-> "Edited",
      isDraft |-> TRUE, saved |-> TRUE]>> : type \in {"crew", "room"}}

\* The payloads of the editor: a name and a type.
Payloads == [name : {"Edited"}, type : {"crew", "room"}]

\* App after mount: sources loaded from storage and the persistence effect
\* run once.
DraftInit ==
  /\ \E savedDrafts \in StoredDrafts :
       /\ sources = loadSources(savedDrafts)
       /\ storage = draftsOf(loadSources(savedDrafts))
  /\ workspaceIds = <<>>
  /\ created = 0
  /\ imported = 0
  /\ last = [op |-> "none"]
  /\ rules = <<>>
  /\ pc = "app"
  /\ segments = <<>>
  /\ analyses = <<>>
  /\ enumerated = <<>>
  /\ buckets = <<>>
  /\ list = [isArray |-> TRUE, items |-> <<>>]
  /\ entities = <<>>
  /\ error = "none"

\* handleCreateDraft, then the effect that opens the pending draft.
CreateDraft ==
  /\ pc = "app"
  /\ created + imported < MaxAdded
  /\ LET draftRaw == newDraft(created + 1)
         next == createUpdater(sources, draftRaw)
         ids == pruneIds(workspaceIds, next)
     IN /\ sources' = next
        /\ storage' = draftsOf(next)
        /\ workspaceIds' = IF \E i \in 1..Len(ids) : ids[i] = <<"crew", draftRaw.key>>
                           THEN ids ELSE Append(ids, <<"crew", draftRaw.key>>)
        /\ last' = [op |-> "create"]
  /\ created' = created + 1
  /\ UNCHANGED <<imported, engineVars, normVars>>

\* The onUpdate callback of useImportFiles: a file's source is appended.
ImportSource ==
  /\ pc = "app"
  /\ created + imported < MaxAdded
  /\ LET raw == [key |-> <<"file", imported + 1>>, type |-> "crew", name |-> "Imported",
                 isDraft |-> FALSE, saved |-> FALSE]
         next == Append(sources, [name |-> "file", crew |-> <<raw>>, rooms |-> <<>>])
     IN /\ sources' = next
        /\ storage' = draftsOf(next)
        /\ workspaceIds' = pruneIds(workspaceIds, next)
        /\ last' = [op |-> "import"]
  /\ imported' = imported + 1
  /\ UNCHANGED <<created, engineVars, normVars>>

\* add(entity) of useWorkspace, from a click in ListView.
OpenEntity ==
  /\ pc = "app"
  /\ \E entity \in allEntities(sources) :
       /\ \A i \in 1..Len(workspaceIds) : workspaceIds[i] # entity.id
       /\ workspaceIds' = Append(workspaceIds, entity.id)
       /\ last' = [op |-> "open"]
  /\ UNCHANGED <<sources, storage, created, imported, engineVars, normVars>>

\* handleUpdateEntity for an entity of the workspace.
UpdateEntity ==
  /\ pc = "app"
  /\ \E i \in 1..Len(workspaceIds), payload \in Payloads :
       LET found == findEntity(sources, workspaceIds[i]) IN
       /\ IsSet(found)
       /\ LET entity == Val(found)
              next == [k \in 1..Len(sources) |-> updateSource(sources[k], entity.source, payload)]
              replacementId == <<payload.type, entity.source.key>>
              ids == [k \in 1..Len(workspaceIds) |->
                        IF workspaceIds[k] = entity.id THEN replacementId ELSE workspaceIds[k]]
          IN /\ sources' = next
             /\ storage' = draftsOf(next)
             /\ workspaceIds' = pruneIds(ids, next)
             /\ last' = [op |-> "update"]
  /\ UNCHANGED <<created, imported, engineVars, normVars>>

\* handleCloseEntity for an entity of the workspace.
CloseEntity ==
  /\ pc = "app"
  /\ \E i \in 1..Len(workspaceIds) :
       LET entityId == workspaceIds[i]
           found == findEntity(sources, entityId)
           discards == IsSet(found) /\ closeDiscards(Val(found).source)
           next == IF discards THEN closeUpdater(sources, Val(found).source) ELSE sources
       IN /\ sources' = next
          /\ storage' = IF discards THEN draftsOf(next) ELSE storage
          /\ workspaceIds' = IF discards THEN pruneIds(removeId(workspaceIds, entityId), next)
                             ELSE removeId(workspaceIds, entityId)
          /\ last' = [op |-> "close", raw |-> Val(found).source]
  /\ UNCHANGED <<created, imported, engineVars, normVars>>

\* handleDeleteDraft, from the delete button ListView shows for a draft.
DeleteDraft ==
  /\ pc = "app"
  /\ \E entity \in allEntities(sources) :
       /\ entity.source.isDraft
       /\ LET updated == deleteUpdater(sources, entity.source) IN
          /\ sources' = updated
          /\ storage' = draftsOf(updated)
          /\ workspaceIds' = pruneIds(removeId(workspaceIds, entity.id), updated)
          /\ last' = [op |-> "delete"]
  /\ UNCHANGED <<created, imported, engineVars, normVars>>

\* removeSource for one of the sources.
RemoveSource ==
  /\ pc = "app"
  /\ \E i \in 1..Len(sources) :
       LET next == removeAt(sources, i) IN
       /\ sources' = next
       /\ storage' = draftsOf(next)
       /\ workspaceIds' = pruneIds(workspaceIds, next)
       /\ last' = [op |-> "removeSource"]
  /\ UNCHANGED <<created, imported, engineVars, normVars>>

DraftNext ==
  \/ CreateDraft
  \/ ImportSource
  \/ OpenEntity
  \/ UpdateEntity
  \/ CloseEntity
  \/ DeleteDraft
  \/ RemoveSource

DraftSpec == DraftInit /\ [][DraftNext]_vars

----------------------------------------------------------------------------
\* Vocabulary of the properties.

\* Positions of analysed segment k.
Positions(k) == 1..Len(analyses[k].rules)

Analysed == 1..Len(analyses)

InPartition(partition, insight) == \E j \in 1..Len(partition) : partition[j] = insight

\* asg gives every constraint of the path the value the path expects.
Agrees(path, asg) ==
  \A j \in 1..Len(path) : asg[path[j].condition] = path[j].expects

\* The constraints an evaluation under asg passes through: the condition and
\* outcome of every evaluated rule whose condition is not always true.
TraceSignature(segRules, asg) ==
  {<<normalizeCondition(segRules[i].condition), conditionHolds(segRules[i], asg)>> :
     i \in {e \in run(segRules, asg).evaluated :
              ~isAlwaysTrue(normalizeCondition(segRules[e].condition))}}

AllPaths(insight) ==
  IF insight.requirements = <<>> THEN insight.requirementPaths
  ELSE <<insight.requirements>> \o insight.requirementPaths

SeqRange(s) == {s[i] : i \in 1..Len(s)}

RECURSIVE Concat(_)
Concat(ss) == IF ss = <<>> THEN <<>> ELSE Head(ss) \o Concat(Tail(ss))

\* C1: every action in guaranteedActions fires under every truth assignment
\* to the condition texts when its segment is evaluated top to bottom.
C1_GuaranteedAlwaysFires ==
  \A k \in Analysed : \A i \in Positions(k) :
    InPartition(analyses[k].guaranteedActions, analyses[k].rules[i]) =>
      \A asg \in Assignments :
        LET r == run(segments[k], asg) IN i \in r.evaluated /\ r.fired = i

\* C2: every deduplicated path of a target is its primary requirements or
\* one of its requirementPaths; two deduplicated paths give one primary and
\* exactly the other path as the only alternate.
C2_NoPathDropped ==
  \A k \in Analysed : \A i \in Positions(k) :
    LET insight == analyses[k].rules[i]
        deduped == enumerated[k][i].dedupedPaths
    IN /\ \A j \in 1..Len(deduped) :
            deduped[j] = insight.requirements \/ deduped[j] \in SeqRange(insight.requirementPaths)
       /\ Len(deduped) = 2 =>
            /\ insight.requirements \in SeqRange(deduped)
            /\ Len(insight.requirementPaths) = 1
            /\ insight.requirementPaths[1] \in SeqRange(deduped)
            /\ insight.requirementPaths[1] # insight.requirements

\* C3: the primary requirements and the requirementPaths of an insight are
\* pairwise distinct by canonical signature.
C3_PathsPairwiseDistinct ==
  \A k \in Analysed : \A i \in Positions(k) :
    LET all == AllPaths(analyses[k].rules[i]) IN
    \A a, b \in 1..Len(all) : a # b => pathSignature(all[a]) # pathSignature(all[b])

\* C4: every action in reachableActions fires under at least one truth
\* assignment to the condition texts.
C4_ReachableFiresSomewhere ==
  \A k \in Analysed : \A i \in Positions(k) :
    InPartition(analyses[k].reachableActions, analyses[k].rules[i]) =>
      \E asg \in Assignments : run(segments[k], asg).fired = i

\* C5: every path enumerateRequirementPaths returns for a target is
\* sufficient: under every assignment that agrees with the path, the target
\* is the rule that fires.
C5_PathsSufficient ==
  \A k \in Analysed : \A i \in Positions(k) :
    LET rawPaths == enumerated[k][i].rawPaths IN
    \A j \in 1..Len(rawPaths) : \A asg \in Assignments :
      Agrees(rawPaths[j], asg) => run(segments[k], asg).fired = i

\* A returned path that constrains one condition to true and another to false.
C5_Witness ==
  \E k \in Analysed : \E i \in Positions(k) :
    \E j \in 1..Len(enumerated[k][i].rawPaths) :
      LET path == enumerated[k][i].rawPaths[j] IN
      /\ \E a \in 1..Len(path) : path[a].expects
      /\ \E a \in 1..Len(path) : ~path[a].expects

\* C6: enumerateRequirementPaths is complete: whenever the target fires
\* under an assignment, a returned path agrees with the assignment, and it is
\* the path of exactly the constraints that evaluation passed through (so
\* the visited set removed no path).
C6_PathsComplete ==
  \A k \in Analysed : \A i \in Positions(k) :
    ~analyses[k].rules[i].isSkip =>
      LET rawPaths == enumerated[k][i].rawPaths IN
      \A asg \in Assignments :
        run(segments[k], asg).fired = i =>
          \E j \in 1..Len(rawPaths) :
            /\ Agrees(rawPaths[j], asg)
            /\ pathSignature(rawPaths[j]) = TraceSignature(segments[k], asg)

\* A target reached along three different paths, firing under some assignment.
C6_Witness ==
  \E k \in Analysed : \E i \in Positions(k) :
    /\ ~analyses[k].rules[i].isSkip
    /\ Len(enumerated[k][i].rawPaths) >= 3
    /\ \E asg \in Assignments : run(segments[k], asg).fired = i

\* C7: a rule whose suppressedBy.always is true is never evaluated and never
\* fires, under any truth assignment.
C7_AlwaysSuppressedNeverRuns ==
  \A k \in Analysed : \A i \in Positions(k) :
    LET insight == analyses[k].rules[i] IN
    (IsSet(insight.suppressedBy) /\ Val(insight.suppressedBy).always) =>
      \A asg \in Assignments :
        LET r == run(segments[k], asg) IN i \notin r.evaluated /\ r.fired # i

\* C8: a suppressedBy names the immediately preceding rule of the segment,
\* which is a Skip, is not itself suppressed, and whose suppressesNext is
\* this rule with the same always flag.
C8_SuppressedByPrecedingActiveSkip ==
  \A k \in Analysed : \A i \in Positions(k) :
    LET insight == analyses[k].rules[i] IN
    IsSet(insight.suppressedBy) =>
      /\ i > 1
      /\ LET source == analyses[k].rules[i - 1] IN
         /\ source.isSkip
         /\ source.index = Val(insight.suppressedBy).ruleIndex
         /\ source.displayIndex = Val(insight.suppressedBy).displayIndex
         /\ ~IsSet(source.suppressedBy)
         /\ source.suppressesNext =
              Some([ruleIndex |-> insight.index,
                    displayIndex |-> insight.displayIndex,
                    always |-> Val(insight.suppressedBy).always])

\* A segment analysed with a conditionally suppressed rule and an always
\* suppressed rule.
C8_Witness ==
  \E k \in Analysed : \E i, j \in Positions(k) :
    /\ IsSet(analyses[k].rules[i].suppressedBy)
    /\ ~Val(analyses[k].rules[i].suppressedBy).always
    /\ IsSet(analyses[k].rules[j].suppressedBy)
    /\ Val(analyses[k].rules[j].suppressedBy).always

\* C9: the segments, concatenated in order, are exactly the input rule
\* list, and no segment is empty.
C9_SegmentsReconstructInput ==
  pc = "segmented" =>
    /\ Concat(segments) = rules
    /\ \A k \in 1..Len(segments) : Len(segments[k]) > 0

\* A list cut into several segments, the last one made of trailing Skips.
C9_Witness ==
  /\ pc = "segmented"
  /\ Len(segments) >= 2
  /\ \A i \in 1..Len(segments[Len(segments)]) : isSkip(segments[Len(segments)][i])

\* C10: no Skip of one subsystem is the suppressedBy source of, or the
\* source of a requirement of, a rule of another subsystem.
C10_NoCrossSubsystemAnalysis ==
  \A k \in Analysed : \A i \in Positions(k) :
    LET insight == analyses[k].rules[i]
        all == AllPaths(insight)
        sameSubsystem(displayIndex) ==
          LET pos == lookupPosition(analyses[k].rules, displayIndex) IN
          pos # 0 => subsystemOf(analyses[k].rules[pos].rule) = subsystemOf(insight.rule)
    IN /\ IsSet(insight.suppressedBy) =>
            sameSubsystem(Val(insight.suppressedBy).displayIndex)
       /\ \A a \in 1..Len(all) : \A j \in 1..Len(all[a]) :
            sameSubsystem(all[a][j].displayIndex)

\* The rules of the input a subsystem tag is inferred for, in input order.
RulesOf(key) ==
  LET positions == {i \in 1..Len(rules) : subsystemOf(rules[i]) = key}
      nth(n) == CHOOSE i \in positions : Cardinality({j \in positions : j < i}) = n - 1
  IN [n \in 1..Cardinality(positions) |-> rules[nth(n)]]

\* C11: the buckets partition the input: the keys are the subsystem tags
\* of the input rules, and each bucket holds exactly the input rules of its
\* tag, each once, in their input order.
C11_BucketsPartitionInput ==
  pc = "bucketed" =>
    /\ DOMAIN buckets = {subsystemOf(rules[i]) : i \in 1..Len(rules)}
    /\ \A key \in DOMAIN buckets : buckets[key] = RulesOf(key)

\* An input spread over three buckets, one of them holding two rules that
\* stand apart in the input.
C11_Witness ==
  /\ pc = "bucketed"
  /\ Cardinality(DOMAIN buckets) >= 3
  /\ \E key \in DOMAIN buckets :
       /\ Len(buckets[key]) >= 2
       /\ subsystemOf(rules[1]) = key /\ subsystemOf(rules[2]) # key

\* Number of entries of a partition that are the given insight.
Occurrences(partition, insight) ==
  Cardinality({j \in 1..Len(partition) : partition[j] = insight})

\* C12: in every SegmentInsight the three partitions hold no Skip and no
\* insight that is not one of the segment's, every non-Skip rule of the
\* segment is in exactly one of them exactly once, and a segment without a
\* non-Skip rule, the empty segment included, has three empty partitions.
C12_PartitionsDisjointExhaustive ==
  /\ LET empty == analyzeSegment(<<>>) IN
       /\ empty.rules = <<>>
       /\ empty.guaranteedActions = <<>>
       /\ empty.reachableActions = <<>>
       /\ empty.unreachableActions = <<>>
  /\ \A k \in Analysed :
       LET a == analyses[k]
           all == a.guaranteedActions \o a.reachableActions \o a.unreachableActions
       IN /\ \A i \in Positions(k) :
               Occurrences(all, a.rules[i]) = IF isSkip(segments[k][i]) THEN 0 ELSE 1
          /\ \A j \in 1..Len(all) : \E i \in Positions(k) : all[j] = a.rules[i]
          /\ (\A i \in 1..Len(segments[k]) : isSkip(segments[k][i])) => all = <<>>

\* A rule list analysed into an unreachable action, a guaranteed action and
\* a trailing segment of Skips alone.
C12_Witness ==
  /\ \E k \in Analysed : Len(analyses[k].unreachableActions) = 1
  /\ \E k \in Analysed : Len(analyses[k].guaranteedActions) = 1
  /\ \E k \in Analysed :
       /\ \A i \in 1..Len(segments[k]) : isSkip(segments[k][i])
       /\ analyses[k].guaranteedActions = <<>>
       /\ analyses[k].reachableActions = <<>>
       /\ analyses[k].unreachableActions = <<>>

\* The segment of the second scenario of the Skip chain: an unconditional
\* Skip, a conditional Skip, an unconditional action.
ChainedSkips ==
  <<[index |-> 0, condition |-> "None", action |-> SkipAmmoAction, phase |-> ""],
    [index |-> 1, condition |-> "A", action |-> SkipAmmoAction, phase |-> ""],
    [index |-> 2, condition |-> "None", action |-> SetItemAction, phase |-> ""]>>

AlwaysSuppressesNext(k, i) ==
  /\ i + 1 \in Positions(k)
  /\ IsSet(analyses[k].rules[i + 1].suppressedBy)
  /\ Val(analyses[k].rules[i + 1].suppressedBy).always

\* Skips of analysed segment k whose condition is "None" and that are
\* followed by a rule.
UnconditionalSkipsFollowed(k) ==
  {i \in Positions(k) :
     /\ isSkip(segments[k][i])
     /\ normalizeCondition(segments[k][i].condition) = "None"
     /\ i + 1 \in Positions(k)}

C20_SegmentsEndAtFirstAction ==
  pc # "input" =>
    \A k \in 1..Len(segments) :
      LET segment == segments[k] IN
      /\ Len(segment) > 0
      /\ \A i \in 1..Len(segment) : ~isSkip(segment[i]) => i = Len(segment)
      /\ k < Len(segments) => ~isSkip(segment[Len(segment)])

\* A rule list cut into a segment of a Skip and its action, a segment of
\* one action, and a final segment of Skips alone.
C20_Witness ==
  /\ pc # "input"
  /\ Len(segments) = 3
  /\ Len(segments[1]) = 2 /\ isSkip(segments[1][1]) /\ ~isSkip(segments[1][2])
  /\ Len(segments[2]) = 1 /\ ~isSkip(segments[2][1])
  /\ \A i \in 1..Len(segments[3]) : isSkip(segments[3][i])

\* C14: no step changes the caller's raw list, so normalizeEntities leaves
\* every raw.ai array as it was handed in; once a rule list is given to the
\* analysis, no step of bucketBySubsystem, buildSegmentsForSubsystem or
\* analyzeSegment changes it or the entities; and the rules the segments
\* and the insights carry are the input rules, in input order.
C14_InputUnchanged ==
  [][/\ list' = list
     /\ pc \in {"input", "segmented"} => (rules' = rules /\ entities' = entities)
     /\ pc' = "segmented" => Concat(segments') = rules'
     /\ \A k \in 1..Len(analyses') : \A i \in 1..Len(analyses'[k].rules) :
          analyses'[k].rules[i].rule = segments'[k][i]]_vars

\* An entity whose raw.ai is not in index order has been normalized, its
\* sorted flatRules segmented and analysed, and raw.ai still stands in
\* the caller's order.
C14_Witness ==
  /\ list.isArray
  /\ \E e \in 1..Len(entities) :
       /\ IsSet(list.items[e].ai)
       /\ entities[e].flatRules # Val(list.items[e].ai)
       /\ rules = entities[e].flatRules
  /\ pc = "segmented"
  /\ Len(analyses) = Len(segments)
  /\ Len(analyses) > 0

\* C15 as stated: a call of normalizeEntities with a non-array value ends
\* with an InvalidInput error.
C15_NonArrayIsInvalidInput ==
  (pc # "raw" /\ ~list.isArray) => error = "InvalidInput"

\* C15, amended: a call of normalizeEntities with a non-array value throws
\* nothing and returns the empty entity list.
C15_NonArrayYieldsNoEntities ==
  (pc # "raw" /\ ~list.isArray) => (error = "none" /\ entities = <<>>)

\* normalizeEntities has returned from a call with a non-array value.
C15_Witness ==
  pc = "normalized" /\ ~list.isArray

\* The raw entities held by the sources.
RawsIn(srcs) == {e.source : e \in allEntities(srcs)}

\* C16: after every handler and the effects that follow it, storage holds
\* only raw entities with isDraft and saved both true, each once, and they
\* are exactly the raw entities of the sources with both flags true; an
\* unsaved draft is never in storage.
C16_OnlySavedDraftsPersisted ==
  /\ \A i \in 1..Len(storage) : storage[i].isDraft /\ storage[i].saved
  /\ SeqRange(storage) = {raw \in RawsIn(sources) : raw.isDraft /\ raw.saved}
  /\ Cardinality(SeqRange(storage)) = Len(storage)

\* The sources hold an unsaved draft, a saved draft and an edited entity
\* that is no draft; storage holds the saved draft alone.
C16_Witness ==
  /\ \E raw \in RawsIn(sources) : raw.isDraft /\ ~raw.saved
  /\ \E raw \in RawsIn(sources) : raw.isDraft /\ raw.saved /\ storage = <<raw>>
  /\ \E raw \in RawsIn(sources) : ~raw.isDraft /\ raw.name = "Edited"

\* C17: a step of handleCloseEntity on an unsaved draft takes the draft,
\* and nothing else, out of the sources and leaves no empty source named
\* "Drafts"; on a saved draft or an entity that is no draft it leaves
\* sources and storage as they were.  Either way the entity leaves the
\* workspace and no other id does.
C17_CloseDiscardsOnlyUnsavedDrafts ==
  [][last'.op = "close" =>
       LET raw == last'.raw
           others(x) == x[2] # raw.key
       IN /\ workspaceIds' = SelectSeq(workspaceIds, others)
          /\ Len(workspaceIds') = Len(workspaceIds) - 1
          /\ IF raw.isDraft /\ ~raw.saved
             THEN /\ RawsIn(sources') = RawsIn(sources) \ {raw}
                  /\ raw \in RawsIn(sources)
                  /\ \A i \in 1..Len(sources') :
                       sources'[i].name = "Drafts" =>
                         Len(sources'[i].crew) + Len(sources'[i].rooms) > 0
                  /\ storage' = storage
             ELSE sources' = sources /\ storage' = storage]_vars

\* handleCloseEntity has just discarded an unsaved draft while a saved
\* draft stays in the sources and in storage.
C17_Witness ==
  /\ last.op = "close"
  /\ last.raw.isDraft /\ ~last.raw.saved
  /\ last.raw \notin RawsIn(sources)
  /\ \E raw \in RawsIn(sources) : raw.isDraft /\ raw.saved /\ storage = <<raw>>

\* C21: in every analysed segment a Skip without suppressedBy that is
\* followed by a rule has suppressesNext naming that rule (its index and
\* its display index) with always true exactly when the Skip's condition
\* is "None"; a Skip in last position has no suppressesNext, and the
\* segment it ends is analysed like any other.
C21_SuppressesNextIsFollowingRule ==
  /\ (pc = "segmented" /\ Len(analyses) = Len(segments)) =>
       \A k \in 1..Len(segments) : Len(analyses[k].rules) = Len(segments[k])
  /\ \A k \in Analysed : \A i \in Positions(k) :
       LET r == analyses[k].rules IN
       (r[i].isSkip /\ ~IsSet(r[i].suppressedBy)) =>
         IF i + 1 \in Positions(k)
         THEN /\ IsSet(r[i].suppressesNext)
              /\ Val(r[i].suppressesNext).ruleIndex = r[i + 1].index
              /\ Val(r[i].suppressesNext).displayIndex = r[i + 1].displayIndex
              /\ Val(r[i].suppressesNext).displayIndex # r[i].displayIndex
              /\ Val(r[i].suppressesNext).always
                   = (normalizeCondition(segments[k][i].condition) = "None")
         ELSE ~IsSet(r[i].suppressesNext)

\* An analysed segment of Skips alone: an active conditional Skip followed
\* by a rule, and an active Skip in last position.
C21_Witness ==
  \E k \in Analysed : \E i \in Positions(k), j \in Positions(k) :
    LET r == analyses[k].rules IN
    /\ r[i].isSkip /\ ~IsSet(r[i].suppressedBy) /\ ~r[i].alwaysTrue
    /\ i + 1 \in Positions(k) /\ IsSet(r[i].suppressesNext)
    /\ r[j].isSkip /\ ~IsSet(r[j].suppressedBy)
    /\ j = Len(r) /\ ~IsSet(r[j].suppressesNext)

\* Number of constraints of the path that expect the given value and are
\* attributed to a Skip of analysed segment k.
SkipConstraints(k, path, expects) ==
  Cardinality({j \in 1..Len(path) :
                 /\ path[j].expects = expects
                 /\ \E i \in Positions(k) :
                      /\ analyses[k].rules[i].displayIndex = path[j].displayIndex
                      /\ analyses[k].rules[i].isSkip})

\* Path p scores strictly better than path q: fewer Skip constraints
\* expected true, then more Skip constraints expected false, then shorter.
ScoresBetter(k, p, q) ==
  LET pt == SkipConstraints(k, p, TRUE)
      qt == SkipConstraints(k, q, TRUE)
      pf == SkipConstraints(k, p, FALSE)
      qf == SkipConstraints(k, q, FALSE)
  IN \/ pt < qt
     \/ pt = qt /\ pf > qf
     \/ pt = qt /\ pf = qf /\ Len(p) < Len(q)

\* C22: when a target has several deduplicated paths, its primary
\* requirements are one of them and no deduplicated path scores strictly
\* better than the primary.
C22_PrimaryHasBestScore ==
  \A k \in Analysed : \A i \in Positions(k) :
    LET deduped == enumerated[k][i].dedupedPaths
        primary == analyses[k].rules[i].requirements
    IN Len(deduped) > 1 =>
         /\ primary \in SeqRange(deduped)
         /\ \A j \in 1..Len(deduped) : ~ScoresBetter(k, deduped[j], primary)

\* A target with two deduplicated paths of different score, the primary
\* scoring strictly better than the other.
C22_Witness ==
  \E k \in Analysed : \E i \in Positions(k) :
    LET deduped == enumerated[k][i].dedupedPaths
        primary == analyses[k].rules[i].requirements
    IN /\ Len(deduped) > 1
       /\ \E j \in 1..Len(deduped) : ScoresBetter(k, primary, deduped[j])
       /\ primary # deduped[1]

\* Analysed segment k is a conditional Skip followed by an unconditional
\* action and nothing else.
ConditionalSkipThenAction(k) ==
  /\ Len(segments[k]) = 2
  /\ isSkip(segments[k][1])
  /\ normalizeCondition(segments[k][1].condition) # "None"
  /\ ~isSkip(segments[k][2])
  /\ normalizeCondition(segments[k][2].condition) = "None"

\* C23: in a segment made of a conditional Skip with condition C and an
\* unconditional action, the action is the one reachable action, its
\* requirements are the single constraint C = false at the Skip's display
\* index, and it has no alternate paths.
C23_ConditionalSkipGivesOneFalseConstraint ==
  \A k \in Analysed :
    ConditionalSkipThenAction(k) =>
      LET a == analyses[k] IN
      /\ a.reachableActions = <<a.rules[2]>>
      /\ a.guaranteedActions = <<>>
      /\ a.unreachableActions = <<>>
      /\ a.rules[2].requirements =
           <<[condition |-> segments[k][1].condition,
              expects |-> FALSE,
              displayIndex |-> a.rules[1].displayIndex]>>
      /\ a.rules[2].requirementPaths = <<>>

\* Such a segment has been analysed as a later segment of its rule list.
C23_Witness ==
  \E k \in Analysed :
    /\ ConditionalSkipThenAction(k)
    /\ k > 1
    /\ Len(analyses[k].rules[2].requirements) = 1

\* The paths the analysis of rule i of segment k handles: the enumerator's
\* raw paths, the primary path and the alternates.
PathsOf(k, i) ==
  SeqRange(enumerated[k][i].rawPaths)
    \cup {analyses[k].rules[i].requirements}
    \cup SeqRange(analyses[k].rules[i].requirementPaths)

C25_SearchAdvancesAndNeverRepeats ==
  \A k \in Analysed : \A i \in Positions(k) :
    LET expanded == enumerated[k][i].expanded
        steps == enumerated[k][i].steps
    IN /\ \A step \in steps : step[2] > step[1]
       /\ \A e \in 1..Len(expanded) : expanded[e][1] <= i
       /\ \A e, f \in 1..Len(expanded) : expanded[e] = expanded[f] => e = f

\* A search with several branches: the target is the fourth rule of its
\* segment and more than four states were expanded on the way to it.
C25_Witness ==
  \E k \in Analysed : \E i \in Positions(k) :
    /\ i = 4
    /\ Len(enumerated[k][i].expanded) > 4
    /\ <<3, 4>> \in enumerated[k][i].steps

\* flatRules of entity e is the ai array of raw entity e sorted stably by
\* index: some rearrangement perm of the input gives the output, has the
\* indexed rules in non-decreasing index order, and keeps the input order
\* of two rules with the same index and of two rules without index.
SortedStably(input, output) ==
  /\ Len(output) = Len(input)
  /\ \E perm \in Permutations(1..Len(input)) :
       /\ output = [k \in 1..Len(input) |-> input[perm[k]]]
       /\ \A a, b \in 1..Len(input) :
            a < b =>
              /\ (isFiniteIndex(output[a]) /\ isFiniteIndex(output[b]))
                   => output[a].index <= output[b].index
              /\ output[a].index = output[b].index => perm[a] < perm[b]

\* C26: the Normalizer's rule order is a stable sort by numeric index:
\* flatRules is a permutation of the input rules with the indexed rules in
\* non-decreasing index order and with rules of equal or missing index in
\* their input order, also when indexed and unindexed rules are mixed.
C26_RuleOrderIsStableSortByIndex ==
  (pc = "normalized" /\ error = "none") =>
    \A e \in 1..Len(entities) :
      SortedStably(rulesCopy(list.items[e]), entities[e].flatRules)

\* C27: the display index of every rule insight is the rule's 0-based
\* position in the rule list plus one, in every segment and with or
\* without an explicit index, and the display index useSegmentSummaries
\* looks a segment's summary up with is the one the analysis gave the
\* segment's terminating rule.
C27_DisplayIndexIsListPositionPlusOne ==
  \A k \in Analysed :
    /\ \A i \in Positions(k) :
         analyses[k].rules[i].displayIndex = indexOf(segments, k, i) + 1
    /\ terminating(segments[k]) # 0 =>
         termDisplayIndex(segments, k) =
           analyses[k].rules[terminating(segments[k])].displayIndex

\* C28: in a segment built by buildSegmentsForSubsystem the trimming of
\* analyzeSegment removes no constraint: the target is the segment's only
\* non-Skip rule, no action stands before it (lastActionPosition is the
\* segment start), and every trimmed path is the raw path it came from.
C28_TrimmingRemovesNothing ==
  \A k \in Analysed : \A i \in Positions(k) :
    ~analyses[k].rules[i].isSkip =>
      /\ \A j \in Positions(k) : ~analyses[k].rules[j].isSkip => j = i
      /\ enumerated[k][i].lastActionPosition = 0
      /\ enumerated[k][i].trimmedPaths = enumerated[k][i].rawPaths

\* A target behind two conditional Skips was analysed and one of its raw
\* paths holds a constraint of each of them; trimming left it whole.
C28_Witness ==
  \E k \in Analysed : \E i \in Positions(k) :
    \E p \in 1..Len(enumerated[k][i].rawPaths) :
      LET path == enumerated[k][i].rawPaths[p] IN
      /\ i >= 3
      /\ \E a, b \in 1..Len(path) :
           /\ path[a].displayIndex = analyses[k].rules[1].displayIndex
           /\ path[b].displayIndex = analyses[k].rules[2].displayIndex
           /\ a # b
      /\ enumerated[k][i].trimmedPaths[p] = path

\* C30: classification and enumeration agree on unreachable actions: a
\* rule listed in unreachableActions has neither requirements nor
\* requirementPaths, and the enumerator returned no path for it.
C30_UnreachableHasNoPath ==
  \A k \in Analysed : \A i \in Positions(k) :
    InPartition(analyses[k].unreachableActions, analyses[k].rules[i]) =>
      /\ analyses[k].rules[i].requirements = <<>>
      /\ analyses[k].rules[i].requirementPaths = <<>>
      /\ enumerated[k][i].rawPaths = <<>>

\* C29: normalizeEntities gives the entities of one input list pairwise
\* distinct ids, whatever their identifiers: missing, repeated, or holding
\* the separator followed by an array position.
C29_IdsPairwiseDistinct ==
  (pc = "normalized" /\ error = "none") =>
    \A a, b \in 1..Len(entities) :
      entities[a].id = entities[b].id => a = b

=============================================================================
